---- MODULE Spec2Model ----
(***************************************************************************)
(* Model of client/rpc_client.go: the RPC client of the Serf agent.  One   *)
(* TCP connection is shared by the listener goroutine (listen) and by any  *)
(* number of caller goroutines; requests and responses are correlated by   *)
(* seq through the dispatch table.  Every goroutine is a thread with a     *)
(* program counter; a step is one access to shared memory, one lock        *)
(* operation or one channel operation of the Go code.                      *)
(***************************************************************************)
EXTENDS Integers, Sequences, FiniteSets, TLC

\* ------------------------------------------------------------------ bounds
NumCallers == 2     \* caller goroutines (caller 1 also runs NewRPCClient)
MaxSeq == 3         \* requests issued over the life of the client
MaxFrames == 3      \* response envelopes decoded, with concurrent callers
StreamFrames == 5   \* response envelopes decoded, with a single caller
ChanCap == 1        \* capacity of a caller-supplied delivery channel

\* --------------------------------------------------------- program constants
ErrChCap == 1       \* make(chan error, 1): errCh and initCh
Unlocked == 0       \* zero value of sync.Mutex

Callers == 1..NumCallers
Lis == NumCallers + 1                \* the goroutine started by go client.listen()
Threads == Callers \cup {Lis}
Seqs == 1..MaxSeq

\* error values: nil, the client-closed sentinel, a transport write error, a
\* decode error, fmt.Errorf("Stream closed"), and the agent's error strings
ErrNil == "nil"
clientClosed == "client closed"
ErrWrite == "write error"
ErrDecode == "decode error"
ErrStreamClosed == "Stream closed"
AgentErrors == {"", "agent error"}   \* responseHeader.Error, "" = success

VARIABLES
  seqCtr,        \* c.seq
  dispatch,      \* c.dispatch: the set of seqs that have a handler
  dispatchLock,  \* holder of c.dispatchLock, or Unlocked
  writeLock,     \* holder of c.writeLock, or Unlocked
  shutdownLock,  \* holder of c.shutdownLock, or Unlocked
  shutdown,      \* c.shutdown
  shutdownCh,    \* "open" or "closed"
  conn,          \* "open" or "closed"
  kind,          \* the handler created for a seq: none, cb, cbResp, stream
  hinit,         \* monitorHandler.init / streamHandler.init
  hclosed,       \* monitorHandler.closed / streamHandler.closed
  initCh,        \* the 1-buffered init signal of a streaming handler
  logCh,         \* the caller-supplied delivery channel (logCh / eventCh)
  logChClosed,   \* whether the delivery channel has been closed
  errCh,         \* the 1-buffered completion channel of a one-shot call
  sent,          \* seqs whose request has been written to the transport
  nframes,       \* number of response envelopes decoded so far
  hdr,           \* respHeader of listen()
  lh,            \* the handler respondSeq looked up (0: none)
  todo,          \* handlers deregisterAll has still to clean up
  panicked,      \* a goroutine panicked: the Go runtime ends the process
  client,        \* NewRPCClient: "pending", "ok" (client returned), "failed"
  pc, op, rseq, dseq, ret, terr, tfrom, hnd,   \* per thread
  inFlight,      \* callers inside an operation when c.shutdown was set
  blocked,       \* callers waiting in genericRPC's select at that moment
  shutSeq,       \* c.seq when c.shutdown was set (0 before)
  closer,        \* the thread whose Close set c.shutdown (0 before)
  hsResult,      \* what handshake() returned to NewRPCClient ("none" before)
  stopFound,     \* per caller in Stop: its deregisterHandler found the handler
  handles,       \* StreamHandles returned by Monitor / Stream
  stopped,       \* handles for which a Stop has returned
  atShutdown,    \* handlers in the table when deregisterAll took the lock
  dropped        \* per subscription: messages dropped on a full channel

gSeq == <<seqCtr, kind>>
gDisp == <<dispatch, dispatchLock, todo, atShutdown>>
gWrite == <<writeLock, sent>>
gShut == <<shutdownLock, shutdown, shutdownCh, conn>>
gHand == <<hinit, hclosed, initCh, logCh, logChClosed, dropped>>
gLis == <<nframes, hdr, lh>>
gMisc == <<panicked, client>>
gRes == <<inFlight, blocked, shutSeq, closer, hsResult, stopFound, handles, stopped>>
locals == <<pc, op, rseq, dseq, ret, terr, tfrom, hnd>>
vars == <<gSeq, gDisp, gWrite, gShut, gHand, errCh, gLis, gMisc, gRes, locals>>

\* -------------------------------------------------------------- helpers
NoHdr == [seq |-> 0, error |-> ""]

\* monitorHandler and streamHandler are the same code (logCh is called eventCh
\* in the second): one kind, "stream", stands for both
IsStreaming(k) == k = "stream"

\* strToError: a blank string is no error, any other string is that error
strToError(s) == IF s # "" THEN s ELSE ErrNil

\* getSeq: atomic.AddUint64(&c.seq, 1)
getSeq(c) == c + 1

\* a lookup that ignores the key: any registered handler answers
LookupAnyHandler(seq) == IF dispatch # {} THEN CHOOSE s \in dispatch : TRUE ELSE 0

\* the c.dispatch[seq] lookup of respondSeq: the handler, 0 when none
Lookup(seq) == IF seq \in dispatch THEN seq ELSE 0

\* callers that run Stop and have not yet drawn the seq of their stop request
StopPending == {t \in Callers : op[t] = "stop" /\ rseq[t] = 0}
CanGetSeq == seqCtr + Cardinality(StopPending) < MaxSeq

OneShot(t) == op[t] \in {"rpc", "stop", "handshake"}

Running == ~panicked

Init ==
  /\ seqCtr = 0
  /\ dispatch = {}
  /\ dispatchLock = Unlocked
  /\ writeLock = Unlocked
  /\ shutdownLock = Unlocked
  /\ shutdown = FALSE
  /\ shutdownCh = "open"
  /\ conn = "open"
  /\ kind = [s \in Seqs |-> "none"]
  /\ hinit = [s \in Seqs |-> FALSE]
  /\ hclosed = [s \in Seqs |-> FALSE]
  /\ initCh = [s \in Seqs |-> <<>>]
  /\ logCh = [s \in Seqs |-> <<>>]
  /\ logChClosed = [s \in Seqs |-> FALSE]
  /\ errCh = [s \in Seqs |-> <<>>]
  /\ sent = {}
  /\ nframes = 0
  /\ hdr = NoHdr
  /\ lh = 0
  /\ todo = {}
  /\ panicked = FALSE
  /\ client = "pending"
  /\ pc = [t \in Threads |-> IF t = Lis THEN "l_decode"
                             ELSE IF t = 1 THEN "handshake" ELSE "idle"]
  /\ op = [t \in Threads |-> IF t = Lis THEN "listen"
                             ELSE IF t = 1 THEN "handshake" ELSE "none"]
  /\ rseq = [t \in Threads |-> 0]
  /\ dseq = [t \in Threads |-> 0]
  /\ ret = [t \in Threads |-> ""]
  /\ terr = [t \in Threads |-> ErrNil]
  /\ tfrom = [t \in Threads |-> 0]
  /\ hnd = [t \in Threads |-> 0]
  /\ inFlight = {}
  /\ blocked = {}
  /\ shutSeq = 0
  /\ closer = 0
  /\ hsResult = "none"
  /\ stopFound = [t \in Callers |-> FALSE]
  /\ handles = {}
  /\ stopped = {}
  /\ atShutdown = {}
  /\ dropped = [s \in Seqs |-> {}]

\* ------------------------------------------------------- callers: entry
\* genericRPC's caller (Join, Members, ...): Seq: c.getSeq(), then the handler
\* closure is created; withResp says whether resp # nil
CallRPC(t, withResp) ==
  /\ Running /\ client = "ok" /\ pc[t] = "idle" /\ CanGetSeq
  /\ seqCtr' = getSeq(seqCtr)
  /\ kind' = [kind EXCEPT ![seqCtr'] = IF withResp THEN "cbResp" ELSE "cb"]
  /\ op' = [op EXCEPT ![t] = "rpc"]
  /\ rseq' = [rseq EXCEPT ![t] = seqCtr']
  /\ pc' = [pc EXCEPT ![t] = "handleSeq"]
  /\ UNCHANGED <<gDisp, gWrite, gShut, gHand, errCh, gLis, gMisc, gRes,
                 dseq, ret, terr, tfrom, hnd>>

\* Monitor and Stream (the same code but for the request sent) up to the
\* handler's creation
CallSubscribe(t) ==
  /\ Running /\ client = "ok" /\ pc[t] = "idle" /\ CanGetSeq
  /\ seqCtr' = getSeq(seqCtr)
  /\ kind' = [kind EXCEPT ![seqCtr'] = "stream"]
  /\ op' = [op EXCEPT ![t] = "subscribe"]
  /\ rseq' = [rseq EXCEPT ![t] = seqCtr']
  /\ pc' = [pc EXCEPT ![t] = "handleSeq"]
  /\ UNCHANGED <<gDisp, gWrite, gShut, gHand, errCh, gLis, gMisc, gRes,
                 dseq, ret, terr, tfrom, hnd>>

\* handshake(): the first one-shot call, made by NewRPCClient
Handshake(t) ==
  /\ Running /\ pc[t] = "handshake"
  /\ seqCtr' = getSeq(seqCtr)
  /\ kind' = [kind EXCEPT ![seqCtr'] = "cb"]
  /\ rseq' = [rseq EXCEPT ![t] = seqCtr']
  /\ pc' = [pc EXCEPT ![t] = "handleSeq"]
  /\ UNCHANGED <<gDisp, gWrite, gShut, gHand, errCh, gLis, gMisc, gRes,
                 op, dseq, ret, terr, tfrom, hnd>>

\* a handleSeq that leaves the table as it is
HandleSeqNoRegister(t) ==
  /\ Running /\ pc[t] = "handleSeq"
  /\ dispatchLock = Unlocked
  /\ pc' = [pc EXCEPT ![t] = "send1"]
  /\ UNCHANGED <<gSeq, gDisp, gWrite, gShut, gHand,
                 errCh, gLis, gMisc, gRes, op, rseq, dseq, ret, terr, tfrom, hnd>>

\* handleSeq: c.dispatch[seq] = handler, under the dispatch lock
HandleSeq(t) ==
  /\ Running /\ pc[t] = "handleSeq"
  /\ dispatchLock = Unlocked
  /\ dispatch' = dispatch \cup {rseq[t]}
  /\ pc' = [pc EXCEPT ![t] = "send1"]
  /\ UNCHANGED <<gSeq, dispatchLock, todo, atShutdown, gWrite, gShut, gHand,
                 errCh, gLis, gMisc, gRes, op, rseq, dseq, ret, terr, tfrom, hnd>>

\* where a failed send continues: genericRPC returns through its deferred
\* deregisterHandler, Monitor and Stream call deregisterHandler and return
AfterSendFailure(t) == IF OneShot(t) THEN "rpc_ret" ELSE "sub_ret"

\* a send that does not look at c.shutdown
Send1NoShutdownCheck(t) ==
  /\ Running /\ pc[t] = "send1"
  /\ writeLock = Unlocked
  /\ writeLock' = t
  /\ pc' = [pc EXCEPT ![t] = "send2"]
  /\ UNCHANGED <<gSeq, gDisp, sent, gShut, gHand, errCh, gLis, gMisc, gRes,
                 op, rseq, dseq, ret, terr, tfrom, hnd>>

\* send, first half: writeLock.Lock(); if c.shutdown { return clientClosed }
Send1(t) ==
  /\ Running /\ pc[t] = "send1"
  /\ writeLock = Unlocked
  /\ IF shutdown
       THEN /\ terr' = [terr EXCEPT ![t] = clientClosed]
            /\ pc' = [pc EXCEPT ![t] = "dereg"]
            /\ dseq' = [dseq EXCEPT ![t] = rseq[t]]
            /\ ret' = [ret EXCEPT ![t] = AfterSendFailure(t)]
            /\ UNCHANGED writeLock
       ELSE /\ writeLock' = t
            /\ pc' = [pc EXCEPT ![t] = "send2"]
            /\ UNCHANGED <<terr, dseq, ret>>
  /\ UNCHANGED <<gSeq, gDisp, sent, gShut, gHand, errCh, gLis, gMisc, gRes,
                 op, rseq, tfrom, hnd>>

\* send, second half: Encode, Flush, writeLock.Unlock().  The write fails once
\* the connection is closed, and may fail at any time (the peer went away).
Send2(t) ==
  /\ Running /\ pc[t] = "send2"
  /\ writeLock' = Unlocked
  /\ \E ok \in BOOLEAN :
       /\ conn = "closed" => ~ok
       /\ IF ok
            THEN /\ sent' = sent \cup {rseq[t]}
                 /\ pc' = [pc EXCEPT ![t] = IF OneShot(t) THEN "wait" ELSE "sub_wait"]
                 /\ UNCHANGED <<terr, dseq, ret>>
            ELSE /\ terr' = [terr EXCEPT ![t] = ErrWrite]
                 /\ pc' = [pc EXCEPT ![t] = "dereg"]
                 /\ dseq' = [dseq EXCEPT ![t] = rseq[t]]
                 /\ ret' = [ret EXCEPT ![t] = AfterSendFailure(t)]
                 /\ UNCHANGED sent
  /\ UNCHANGED <<gSeq, gDisp, gShut, gHand, errCh, gLis, gMisc, gRes,
                 op, rseq, tfrom, hnd>>

\* genericRPC's select, case err := <-errCh
WaitErr(t) ==
  /\ Running /\ pc[t] = "wait"
  /\ errCh[rseq[t]] # <<>>
  /\ terr' = [terr EXCEPT ![t] = Head(errCh[rseq[t]]).err]
  /\ tfrom' = [tfrom EXCEPT ![t] = Head(errCh[rseq[t]]).from]
  /\ errCh' = [errCh EXCEPT ![rseq[t]] = Tail(@)]
  /\ pc' = [pc EXCEPT ![t] = "dereg"]
  /\ dseq' = [dseq EXCEPT ![t] = rseq[t]]
  /\ ret' = [ret EXCEPT ![t] = "rpc_ret"]
  /\ UNCHANGED <<gSeq, gDisp, gWrite, gShut, gHand, gLis, gMisc, gRes,
                 op, rseq, hnd>>

\* genericRPC's select, case <-c.shutdownCh
WaitShutdown(t) ==
  /\ Running /\ pc[t] = "wait"
  /\ shutdownCh = "closed"
  /\ terr' = [terr EXCEPT ![t] = clientClosed]
  /\ pc' = [pc EXCEPT ![t] = "dereg"]
  /\ dseq' = [dseq EXCEPT ![t] = rseq[t]]
  /\ ret' = [ret EXCEPT ![t] = "rpc_ret"]
  /\ UNCHANGED <<gSeq, gDisp, gWrite, gShut, gHand, errCh, gLis, gMisc, gRes,
                 op, rseq, tfrom, hnd>>

\* ----------------------------------------- deregisterHandler and Cleanup
\* a deregisterHandler that deletes the entry and forgets Cleanup
deregisterNoCleanup(t, s, r) ==
  /\ dispatchLock = Unlocked
  /\ dispatch' = dispatch \ {s}
  /\ pc' = [pc EXCEPT ![t] = r]
  /\ dseq' = [dseq EXCEPT ![t] = 0]
  /\ ret' = [ret EXCEPT ![t] = ""]

\* deregisterHandler(s), its locked section: seqH, ok := c.dispatch[s];
\* delete(c.dispatch, s).  When ok, seqH.Cleanup() follows outside the lock:
\* seqCallback.Cleanup is empty, a streaming handler's Cleanup is the cl_ steps.
\* r is where the calling code continues.
deregisterHandler(t, s, r) ==
  /\ dispatchLock = Unlocked
  /\ dispatch' = dispatch \ {s}
  /\ IF s \in dispatch /\ IsStreaming(kind[s])
       THEN /\ pc' = [pc EXCEPT ![t] = "cl_read"]
            /\ dseq' = [dseq EXCEPT ![t] = s]
            /\ ret' = [ret EXCEPT ![t] = r]
       ELSE /\ pc' = [pc EXCEPT ![t] = r]
            /\ dseq' = [dseq EXCEPT ![t] = 0]
            /\ ret' = [ret EXCEPT ![t] = ""]

Dereg(t) ==
  /\ Running /\ pc[t] = "dereg"
  /\ deregisterHandler(t, dseq[t], ret[t])
  /\ UNCHANGED <<gSeq, dispatchLock, todo, atShutdown, gWrite, gShut, gHand,
                 errCh, gLis, gMisc, gRes, op, rseq, terr, tfrom, hnd>>

\* where a thread is while it executes a streaming handler's Cleanup, and
\* where the listener is while it executes a handler's Handle
CleanupAt == {"cl_read", "cl_setinit", "cl_initsend", "cl_close"}
HandleAt == {"cb_handle", "h_read", "h_setinit", "h_initsend", "h_deliver"}

\* Cleanup: if !mh.closed { if !mh.init { ...  (closed is written by Cleanup
\* only, init is shared with Handle on the listener: two unsynchronised reads)
ClRead(t) ==
  /\ Running /\ pc[t] = "cl_read"
  /\ IF hclosed[dseq[t]]
       THEN /\ pc' = [pc EXCEPT ![t] = ret[t]]
            /\ dseq' = [dseq EXCEPT ![t] = 0]
            /\ ret' = [ret EXCEPT ![t] = ""]
       ELSE /\ pc' = [pc EXCEPT ![t] = IF ~hinit[dseq[t]] THEN "cl_setinit"
                                        ELSE "cl_close"]
            /\ UNCHANGED <<dseq, ret>>
  /\ UNCHANGED <<gSeq, gDisp, gWrite, gShut, gHand, errCh, gLis, gMisc, gRes,
                 op, rseq, terr, tfrom, hnd>>

\* Cleanup: mh.init = true
ClSetInit(t) ==
  /\ Running /\ pc[t] = "cl_setinit"
  /\ hinit' = [hinit EXCEPT ![dseq[t]] = TRUE]
  /\ pc' = [pc EXCEPT ![t] = "cl_initsend"]
  /\ UNCHANGED <<gSeq, gDisp, gWrite, gShut, hclosed, initCh, logCh, logChClosed,
                 dropped, errCh, gLis, gMisc, gRes,
                 op, rseq, dseq, ret, terr, tfrom, hnd>>

\* Cleanup: mh.initCh <- fmt.Errorf("Stream closed"), a blocking send
ClInitSend(t) ==
  /\ Running /\ pc[t] = "cl_initsend"
  /\ Len(initCh[dseq[t]]) < ErrChCap
  /\ initCh' = [initCh EXCEPT ![dseq[t]] = Append(@, ErrStreamClosed)]
  /\ pc' = [pc EXCEPT ![t] = "cl_close"]
  /\ UNCHANGED <<gSeq, gDisp, gWrite, gShut, hinit, hclosed, logCh, logChClosed,
                 dropped, errCh, gLis, gMisc, gRes,
                 op, rseq, dseq, ret, terr, tfrom, hnd>>

\* Cleanup: close(mh.logCh); mh.closed = true.  Closing a closed channel panics.
ClClose(t) ==
  /\ Running /\ pc[t] = "cl_close"
  /\ IF logChClosed[dseq[t]]
       THEN /\ panicked' = TRUE
            /\ UNCHANGED <<logChClosed, hclosed, pc, dseq, ret>>
       ELSE /\ logChClosed' = [logChClosed EXCEPT ![dseq[t]] = TRUE]
            /\ hclosed' = [hclosed EXCEPT ![dseq[t]] = TRUE]
            /\ pc' = [pc EXCEPT ![t] = ret[t]]
            /\ dseq' = [dseq EXCEPT ![t] = 0]
            /\ ret' = [ret EXCEPT ![t] = ""]
            /\ UNCHANGED panicked
  /\ UNCHANGED <<gSeq, gDisp, gWrite, gShut, hinit, initCh, logCh, dropped,
                 errCh, gLis, client, gRes, op, rseq, terr, tfrom, hnd>>

\* ------------------------------------------------------ callers: returns
\* the operation of caller t returns: its locals are dead
Return(t) ==
  /\ inFlight' = inFlight \ {t}
  /\ blocked' = blocked \ {t}
  /\ pc' = [pc EXCEPT ![t] = "idle"]
  /\ op' = [op EXCEPT ![t] = "none"]
  /\ rseq' = [rseq EXCEPT ![t] = 0]
  /\ dseq' = [dseq EXCEPT ![t] = 0]
  /\ ret' = [ret EXCEPT ![t] = ""]
  /\ terr' = [terr EXCEPT ![t] = ErrNil]
  /\ tfrom' = [tfrom EXCEPT ![t] = 0]
  /\ hnd' = [hnd EXCEPT ![t] = 0]

\* genericRPC returns terr[t] (its deferred deregisterHandler has run), and
\* with it the one-shot operation, or Stop, that called it
RpcReturn(t) ==
  /\ Running /\ pc[t] = "rpc_ret" /\ op[t] \in {"rpc", "stop"}
  /\ Return(t)
  /\ stopped' = IF op[t] = "stop" THEN stopped \cup {hnd[t]} ELSE stopped
  /\ stopFound' = [stopFound EXCEPT ![t] = FALSE]
  /\ UNCHANGED <<gSeq, gDisp, gWrite, gShut, gHand, errCh, gLis, gMisc, handles,
                 shutSeq, closer, hsResult>>

\* a constructor that returns nil, err without closing the client
HandshakeReturnNoClose(t) ==
  /\ Running /\ pc[t] = "rpc_ret" /\ op[t] = "handshake"
  /\ hsResult' = terr[t]
  /\ client' = IF terr[t] = ErrNil THEN "ok" ELSE "failed"
  /\ Return(t)
  /\ UNCHANGED <<gSeq, gDisp, gWrite, gShut, gHand, errCh, gLis, panicked,
                 handles, stopped, shutSeq, closer, stopFound>>

\* NewRPCClient after handshake(): on an error client.Close() and return
\* nil, err; otherwise the client is returned
HandshakeReturn(t) ==
  /\ Running /\ pc[t] = "rpc_ret" /\ op[t] = "handshake"
  /\ hsResult' = terr[t]
  /\ IF terr[t] = ErrNil
       THEN /\ client' = "ok"
            /\ Return(t)
       ELSE /\ pc' = [pc EXCEPT ![t] = "close_lock"]
            /\ UNCHANGED <<client, inFlight, blocked, op, rseq, dseq, ret, terr,
                           tfrom, hnd>>
  /\ UNCHANGED <<gSeq, gDisp, gWrite, gShut, gHand, errCh, gLis, panicked,
                 handles, stopped, shutSeq, closer, stopFound>>

\* Monitor / Stream's select, case err := <-initCh: return StreamHandle(seq), err
SubWaitInit(t) ==
  /\ Running /\ pc[t] = "sub_wait"
  /\ initCh[rseq[t]] # <<>>
  /\ initCh' = [initCh EXCEPT ![rseq[t]] = Tail(@)]
  /\ terr' = [terr EXCEPT ![t] = Head(initCh[rseq[t]])]
  /\ hnd' = [hnd EXCEPT ![t] = rseq[t]]
  /\ pc' = [pc EXCEPT ![t] = "sub_ret"]
  /\ UNCHANGED <<gSeq, gDisp, gWrite, gShut, hinit, hclosed, logCh, logChClosed,
                 dropped, errCh, gLis, gMisc, gRes, op, rseq, dseq, ret, tfrom>>

\* Monitor / Stream's select, case <-c.shutdownCh: deregisterHandler, then
\* return 0, clientClosed
SubWaitShutdown(t) ==
  /\ Running /\ pc[t] = "sub_wait"
  /\ shutdownCh = "closed"
  /\ terr' = [terr EXCEPT ![t] = clientClosed]
  /\ pc' = [pc EXCEPT ![t] = "dereg"]
  /\ dseq' = [dseq EXCEPT ![t] = rseq[t]]
  /\ ret' = [ret EXCEPT ![t] = "sub_ret"]
  /\ UNCHANGED <<gSeq, gDisp, gWrite, gShut, gHand, errCh, gLis, gMisc, gRes,
                 op, rseq, tfrom, hnd>>

\* Monitor / Stream return: StreamHandle(seq), err after the init signal
\* (hnd[t] = seq), and 0, err on the two failure paths (hnd[t] = 0)
SubReturn(t) ==
  /\ Running /\ pc[t] = "sub_ret"
  /\ Return(t)
  /\ handles' = IF hnd[t] # 0 THEN handles \cup {hnd[t]} ELSE handles
  /\ UNCHANGED <<gSeq, gDisp, gWrite, gShut, gHand, errCh, gLis, gMisc,
                 stopped, shutSeq, closer, hsResult, stopFound>>

\* a Stop that sends the stop request without deregistering the handler
CallStopNoDeregister(t, h) ==
  /\ Running /\ client = "ok" /\ pc[t] = "idle" /\ CanGetSeq
  /\ h \in handles
  /\ pc' = [pc EXCEPT ![t] = "stop_rpc"]
  /\ op' = [op EXCEPT ![t] = "stop"]
  /\ hnd' = [hnd EXCEPT ![t] = h]
  /\ stopFound' = [stopFound EXCEPT ![t] = h \in dispatch]
  /\ UNCHANGED <<gSeq, gDisp, gWrite, gShut, gHand, errCh, gLis, gMisc, inFlight,
                 blocked, shutSeq, closer, hsResult, handles, stopped,
                 rseq, dseq, ret, terr, tfrom>>

\* Stop(handle): c.deregisterHandler(uint64(handle)) comes first
CallStop(t, h) ==
  /\ Running /\ client = "ok" /\ pc[t] = "idle" /\ CanGetSeq
  /\ h \in handles
  /\ deregisterHandler(t, h, "stop_rpc")
  /\ op' = [op EXCEPT ![t] = "stop"]
  /\ hnd' = [hnd EXCEPT ![t] = h]
  /\ stopFound' = [stopFound EXCEPT ![t] = h \in dispatch]
  /\ UNCHANGED <<gSeq, dispatchLock, todo, atShutdown, gWrite, gShut, gHand,
                 errCh, gLis, gMisc, inFlight, blocked, shutSeq, closer, hsResult,
                 handles, stopped, rseq, terr, tfrom>>

\* Stop: Seq: c.getSeq(), then genericRPC(&header, &req, nil)
StopRPC(t) ==
  /\ Running /\ pc[t] = "stop_rpc"
  /\ seqCtr' = getSeq(seqCtr)
  /\ kind' = [kind EXCEPT ![seqCtr'] = "cb"]
  /\ rseq' = [rseq EXCEPT ![t] = seqCtr']
  /\ pc' = [pc EXCEPT ![t] = "handleSeq"]
  /\ UNCHANGED <<gDisp, gWrite, gShut, gHand, errCh, gLis, gMisc, gRes,
                 op, dseq, ret, terr, tfrom, hnd>>

\* ------------------------------------------------------------------ Close
\* a caller calls Close
CallClose(t) ==
  /\ Running /\ client = "ok" /\ pc[t] = "idle"
  /\ op' = [op EXCEPT ![t] = "close"]
  /\ pc' = [pc EXCEPT ![t] = "close_lock"]
  /\ UNCHANGED <<gSeq, gDisp, gWrite, gShut, gHand, errCh, gLis, gMisc, gRes,
                 rseq, dseq, ret, terr, tfrom, hnd>>

\* Close returns to the code that called it: listen() ends, NewRPCClient
\* returns nil, err, and a caller's Close returns
CloseReturn(t) ==
  IF t = Lis
    THEN /\ pc' = [pc EXCEPT ![t] = "l_done"]
         /\ UNCHANGED <<op, rseq, dseq, ret, terr, tfrom, hnd, client>>
    ELSE /\ pc' = [pc EXCEPT ![t] = "idle"]
         /\ op' = [op EXCEPT ![t] = "none"]
         /\ rseq' = [rseq EXCEPT ![t] = 0]
         /\ terr' = [terr EXCEPT ![t] = ErrNil]
         /\ tfrom' = [tfrom EXCEPT ![t] = 0]
         /\ client' = IF op[t] = "handshake" THEN "failed" ELSE client
         /\ UNCHANGED <<dseq, ret, hnd>>

\* where an operation is when it has not yet got a result: before and in send,
\* and waiting in the select of genericRPC, Monitor or Stream
InFlightAt == {"handleSeq", "send1", "send2", "wait", "sub_wait", "stop_rpc"}

\* where a thread is inside the if !c.shutdown { ... } block of Close
CloseAt == {"close_ch", "da_lock", "da_loop", "close_conn"}

\* a Close that does not look at c.shutdown
CloseLockNoShutdownCheck(t) ==
  /\ Running /\ pc[t] = "close_lock"
  /\ shutdownLock = Unlocked
  /\ shutdownLock' = t
  /\ shutdown' = TRUE
  /\ pc' = [pc EXCEPT ![t] = "close_ch"]
  /\ inFlight' = {u \in Callers \ {t} : pc[u] \in InFlightAt}
  /\ blocked' = {u \in Callers : pc[u] = "wait" /\ errCh[rseq[u]] = <<>>}
  /\ shutSeq' = seqCtr
  /\ closer' = t
  /\ UNCHANGED <<op, rseq, dseq, ret, terr, tfrom, hnd, client>>
  /\ UNCHANGED <<gSeq, gDisp, gWrite, shutdownCh, conn, gHand, errCh, gLis,
                 panicked, handles, stopped, hsResult, stopFound>>

\* Close: shutdownLock.Lock(); if !c.shutdown { c.shutdown = true ...
\* and, when shutdown is already set, return nil
CloseLock(t) ==
  /\ Running /\ pc[t] = "close_lock"
  /\ shutdownLock = Unlocked
  /\ IF shutdown
       THEN /\ CloseReturn(t)
            /\ UNCHANGED <<shutdownLock, shutdown, inFlight, blocked, shutSeq,
                           closer>>
       ELSE /\ shutdownLock' = t
            /\ shutdown' = TRUE
            /\ pc' = [pc EXCEPT ![t] = "close_ch"]
            /\ inFlight' = {u \in Callers \ {t} : pc[u] \in InFlightAt}
            /\ blocked' = {u \in Callers : pc[u] = "wait" /\ errCh[rseq[u]] = <<>>}
            /\ shutSeq' = seqCtr
            /\ closer' = t
            /\ UNCHANGED <<op, rseq, dseq, ret, terr, tfrom, hnd, client>>
  /\ UNCHANGED <<gSeq, gDisp, gWrite, shutdownCh, conn, gHand, errCh, gLis,
                 panicked, handles, stopped, hsResult, stopFound>>

\* Close: close(c.shutdownCh)
CloseShutdownCh(t) ==
  /\ Running /\ pc[t] = "close_ch"
  /\ IF shutdownCh = "closed"
       THEN panicked' = TRUE /\ UNCHANGED <<shutdownCh, pc>>
       ELSE /\ shutdownCh' = "closed"
            /\ pc' = [pc EXCEPT ![t] = "da_lock"]
            /\ UNCHANGED panicked
  /\ UNCHANGED <<gSeq, gDisp, gWrite, shutdownLock, shutdown, conn, gHand,
                 errCh, gLis, client, gRes, op, rseq, dseq, ret, terr, tfrom, hnd>>

\* a deregisterAll that empties the table without calling Cleanup
DeregisterAllLockNoCleanup(t) ==
  /\ Running /\ pc[t] = "da_lock"
  /\ dispatchLock = Unlocked
  /\ dispatchLock' = t
  /\ todo' = {}
  /\ atShutdown' = dispatch
  /\ pc' = [pc EXCEPT ![t] = "da_loop"]
  /\ UNCHANGED <<gSeq, dispatch, gWrite, gShut, gHand, errCh, gLis, gMisc, gRes,
                 op, rseq, dseq, ret, terr, tfrom, hnd>>

\* deregisterAll: dispatchLock.Lock(), held until the function returns.  The
\* loop over c.dispatch calls Cleanup on every handler; seqCallback.Cleanup is
\* empty, so only the streaming handlers are left to do.
DeregisterAllLock(t) ==
  /\ Running /\ pc[t] = "da_lock"
  /\ dispatchLock = Unlocked
  /\ dispatchLock' = t
  /\ todo' = {s \in dispatch : IsStreaming(kind[s])}
  /\ atShutdown' = dispatch
  /\ pc' = [pc EXCEPT ![t] = "da_loop"]
  /\ UNCHANGED <<gSeq, dispatch, gWrite, gShut, gHand, errCh, gLis, gMisc, gRes,
                 op, rseq, dseq, ret, terr, tfrom, hnd>>

\* deregisterAll: the next handler of the range loop (map order is arbitrary)
DeregisterAllNext(t) ==
  /\ Running /\ pc[t] = "da_loop"
  /\ \E s \in todo :
       /\ todo' = todo \ {s}
       /\ dseq' = [dseq EXCEPT ![t] = s]
  /\ ret' = [ret EXCEPT ![t] = "da_loop"]
  /\ pc' = [pc EXCEPT ![t] = "cl_read"]
  /\ UNCHANGED <<gSeq, dispatch, dispatchLock, atShutdown, gWrite, gShut, gHand,
                 errCh, gLis, gMisc, gRes, op, rseq, terr, tfrom, hnd>>

\* a deregisterAll that does not replace the map
DeregisterAllDoneKeepMap(t) ==
  /\ Running /\ pc[t] = "da_loop"
  /\ todo = {}
  /\ dispatchLock' = Unlocked
  /\ pc' = [pc EXCEPT ![t] = "close_conn"]
  /\ UNCHANGED <<gSeq, dispatch, todo, atShutdown, gWrite, gShut, gHand, errCh,
                 gLis, gMisc, gRes, op, rseq, dseq, ret, terr, tfrom, hnd>>

\* deregisterAll: c.dispatch = make(map...), then the deferred Unlock
DeregisterAllDone(t) ==
  /\ Running /\ pc[t] = "da_loop"
  /\ todo = {}
  /\ dispatch' = {}
  /\ dispatchLock' = Unlocked
  /\ pc' = [pc EXCEPT ![t] = "close_conn"]
  /\ UNCHANGED <<gSeq, todo, atShutdown, gWrite, gShut, gHand, errCh, gLis,
                 gMisc, gRes, op, rseq, dseq, ret, terr, tfrom, hnd>>

\* Close: return c.conn.Close(), then the deferred shutdownLock.Unlock()
CloseConn(t) ==
  /\ Running /\ pc[t] = "close_conn"
  /\ conn' = "closed"
  /\ shutdownLock' = Unlocked
  /\ CloseReturn(t)
  /\ UNCHANGED <<gSeq, gDisp, gWrite, shutdown, shutdownCh, gHand, errCh, gLis,
                 panicked, gRes>>

\* --------------------------------------------------------------- listener
\* listen: c.dec.Decode(&respHeader) succeeds.  The agent answers requests it
\* has received, with any error string, any number of times.
ListenDecode(s, e, maxFrames) ==
  /\ Running /\ pc[Lis] = "l_decode"
  /\ nframes < maxFrames
  /\ s \in sent
  /\ hdr' = [seq |-> s, error |-> e]
  /\ nframes' = nframes + 1
  /\ pc' = [pc EXCEPT ![Lis] = "l_respond"]
  /\ UNCHANGED <<gSeq, gDisp, gWrite, gShut, gHand, errCh, lh, gMisc, gRes,
                 op, rseq, dseq, ret, terr, tfrom, hnd>>

\* a listen without the deferred c.Close()
ListenDecodeFailNoClose ==
  /\ Running /\ pc[Lis] = "l_decode"
  /\ pc' = [pc EXCEPT ![Lis] = "l_done"]
  /\ hdr' = NoHdr
  /\ UNCHANGED <<gSeq, gDisp, gWrite, gShut, gHand, errCh, nframes, lh, gMisc,
                 gRes, op, rseq, dseq, ret, terr, tfrom, hnd>>

\* listen: Decode fails (a malformed frame, or the connection is gone): break,
\* and the deferred c.Close() runs
ListenDecodeFail ==
  /\ Running /\ pc[Lis] = "l_decode"
  /\ pc' = [pc EXCEPT ![Lis] = "close_lock"]
  /\ hdr' = NoHdr
  /\ UNCHANGED <<gSeq, gDisp, gWrite, gShut, gHand, errCh, nframes, lh, gMisc,
                 gRes, op, rseq, dseq, ret, terr, tfrom, hnd>>

\* respondSeq: the locked lookup; without a handler the envelope is dropped
RespondSeq ==
  /\ Running /\ pc[Lis] = "l_respond"
  /\ dispatchLock = Unlocked
  /\ lh' = Lookup(hdr.seq)
  /\ IF lh' = 0
       THEN /\ pc' = [pc EXCEPT ![Lis] = "l_decode"]
            /\ hdr' = NoHdr
       ELSE /\ pc' = [pc EXCEPT ![Lis] = IF IsStreaming(kind[lh']) THEN "h_read"
                                          ELSE "cb_handle"]
            /\ UNCHANGED hdr
  /\ UNCHANGED <<gSeq, gDisp, gWrite, gShut, gHand, errCh, nframes, gMisc, gRes,
                 op, rseq, dseq, ret, terr, tfrom, hnd>>

\* a handler that drops the envelope's error string
CallbackResultNoError(decodeOk) ==
  [err |-> IF decodeOk THEN ErrNil ELSE ErrDecode, from |-> hdr.seq]

\* the value genericRPC's handler pushes: the payload's decode error when
\* resp # nil and Decode fails, else strToError(respHeader.Error)
CallbackResult(decodeOk) ==
  [err |-> IF decodeOk THEN strToError(hdr.error) ELSE ErrDecode,
   from |-> hdr.seq]

\* seqCallback.Handle: genericRPC's handler closure; errCh <- ... blocks
\* while the 1-buffered channel is full
CallbackHandle ==
  /\ Running /\ pc[Lis] = "cb_handle"
  /\ Len(errCh[lh]) < ErrChCap
  /\ \E decodeOk \in BOOLEAN :
       /\ kind[lh] = "cb" => decodeOk
       /\ errCh' = [errCh EXCEPT ![lh] = Append(@, CallbackResult(decodeOk))]
  /\ pc' = [pc EXCEPT ![Lis] = "l_decode"]
  /\ hdr' = NoHdr
  /\ lh' = 0
  /\ UNCHANGED <<gSeq, gDisp, gWrite, gShut, gHand, nframes, gMisc, gRes,
                 op, rseq, dseq, ret, terr, tfrom, hnd>>

\* monitorHandler.Handle / streamHandler.Handle: if !mh.init (an
\* unsynchronised read); when init is set, Decode(&rec) follows, and a decode
\* failure leads to mh.client.deregisterHandler(mh.seq)
StreamHandleRead ==
  /\ Running /\ pc[Lis] = "h_read"
  /\ IF ~hinit[lh]
       THEN /\ pc' = [pc EXCEPT ![Lis] = "h_setinit"]
            /\ UNCHANGED <<dseq, ret, hdr, lh>>
       ELSE \E decodeOk \in BOOLEAN :
              IF decodeOk
                THEN /\ pc' = [pc EXCEPT ![Lis] = "h_deliver"]
                     /\ UNCHANGED <<dseq, ret, hdr, lh>>
                ELSE /\ pc' = [pc EXCEPT ![Lis] = "dereg"]
                     /\ dseq' = [dseq EXCEPT ![Lis] = lh]
                     /\ ret' = [ret EXCEPT ![Lis] = "l_decode"]
                     /\ hdr' = NoHdr
                     /\ lh' = 0
  /\ UNCHANGED <<gSeq, gDisp, gWrite, gShut, gHand, errCh, nframes, gMisc, gRes,
                 op, rseq, terr, tfrom, hnd>>

\* Handle: mh.init = true
StreamHandleSetInit ==
  /\ Running /\ pc[Lis] = "h_setinit"
  /\ hinit' = [hinit EXCEPT ![lh] = TRUE]
  /\ pc' = [pc EXCEPT ![Lis] = "h_initsend"]
  /\ UNCHANGED <<gSeq, gDisp, gWrite, gShut, hclosed, initCh, logCh, logChClosed,
                 dropped, errCh, gLis, gMisc, gRes,
                 op, rseq, dseq, ret, terr, tfrom, hnd>>

\* Handle: mh.initCh <- strToError(resp.Error), a blocking send
StreamHandleInitSend ==
  /\ Running /\ pc[Lis] = "h_initsend"
  /\ Len(initCh[lh]) < ErrChCap
  /\ initCh' = [initCh EXCEPT ![lh] = Append(@, strToError(hdr.error))]
  /\ pc' = [pc EXCEPT ![Lis] = "l_decode"]
  /\ hdr' = NoHdr
  /\ lh' = 0
  /\ UNCHANGED <<gSeq, gDisp, gWrite, gShut, hinit, hclosed, logCh, logChClosed,
                 dropped, errCh, nframes, gMisc, gRes,
                 op, rseq, dseq, ret, terr, tfrom, hnd>>

\* a send that makes room by discarding the oldest message
TrySendOverwrite(ch, m) ==
  IF Len(ch) < ChanCap THEN Append(ch, m) ELSE Append(Tail(ch), m)

\* the channel after select { case ch <- m: default: }: m is appended when
\* there is room and dropped otherwise
TrySend(ch, m) == IF Len(ch) < ChanCap THEN Append(ch, m) ELSE ch

\* Handle: select { case mh.logCh <- rec.Log: default: log "Dropping" }.  A
\* send on a closed channel panics.  The record is named by its frame number.
StreamHandleDeliver ==
  /\ Running /\ pc[Lis] = "h_deliver"
  /\ IF logChClosed[lh]
       THEN /\ panicked' = TRUE
            /\ UNCHANGED <<logCh, dropped, pc, hdr, lh>>
       ELSE /\ logCh' = [logCh EXCEPT ![lh] = TrySend(@, nframes)]
            /\ dropped' = [dropped EXCEPT ![lh] =
                             IF Len(logCh[lh]) < ChanCap THEN @ ELSE @ \cup {nframes}]
            /\ pc' = [pc EXCEPT ![Lis] = "l_decode"]
            /\ hdr' = NoHdr
            /\ lh' = 0
            /\ UNCHANGED panicked
  /\ UNCHANGED <<gSeq, gDisp, gWrite, gShut, hinit, hclosed, initCh, logChClosed,
                 errCh, nframes, client, gRes,
                 op, rseq, dseq, ret, terr, tfrom, hnd>>

\* ------------------------------------------------------------- consumer
\* the application receives from the delivery channel it passed to
\* Monitor / Stream
Consume(s) ==
  /\ Running
  /\ logCh[s] # <<>>
  /\ logCh' = [logCh EXCEPT ![s] = Tail(@)]
  /\ UNCHANGED <<gSeq, gDisp, gWrite, gShut, hinit, hclosed, initCh, logChClosed,
                 dropped, errCh, gLis, gMisc, gRes, locals>>

\* ---------------------------------------------------------- specifications
\* the state in which NewRPCClient returns the client: the handshake (seq 1)
\* was answered without error and its handler is deregistered
InitReady ==
  /\ seqCtr = 1
  /\ dispatch = {}
  /\ dispatchLock = Unlocked
  /\ writeLock = Unlocked
  /\ shutdownLock = Unlocked
  /\ shutdown = FALSE
  /\ shutdownCh = "open"
  /\ conn = "open"
  /\ kind = [s \in Seqs |-> IF s = 1 THEN "cb" ELSE "none"]
  /\ hinit = [s \in Seqs |-> FALSE]
  /\ hclosed = [s \in Seqs |-> FALSE]
  /\ initCh = [s \in Seqs |-> <<>>]
  /\ logCh = [s \in Seqs |-> <<>>]
  /\ logChClosed = [s \in Seqs |-> FALSE]
  /\ errCh = [s \in Seqs |-> <<>>]
  /\ sent = {1}
  /\ nframes = 1
  /\ hdr = NoHdr
  /\ lh = 0
  /\ todo = {}
  /\ panicked = FALSE
  /\ client = "ok"
  /\ pc = [t \in Threads |-> IF t = Lis THEN "l_decode" ELSE "idle"]
  /\ op = [t \in Threads |-> IF t = Lis THEN "listen" ELSE "none"]
  /\ rseq = [t \in Threads |-> 0]
  /\ dseq = [t \in Threads |-> 0]
  /\ ret = [t \in Threads |-> ""]
  /\ terr = [t \in Threads |-> ErrNil]
  /\ tfrom = [t \in Threads |-> 0]
  /\ hnd = [t \in Threads |-> 0]
  /\ inFlight = {}
  /\ blocked = {}
  /\ shutSeq = 0
  /\ closer = 0
  /\ hsResult = ErrNil
  /\ stopFound = [t \in Callers |-> FALSE]
  /\ handles = {}
  /\ stopped = {}
  /\ atShutdown = {}
  /\ dropped = [s \in Seqs |-> {}]

\* steps of genericRPC, whoever called it
GenericRPCStep(t) ==
  \/ HandleSeq(t)
  \/ Send1(t)
  \/ Send2(t)
  \/ WaitErr(t)
  \/ WaitShutdown(t)
  \/ Dereg(t)

\* steps of Close without streaming handlers in the table
CloseStep(t) ==
  \/ CloseLock(t)
  \/ CloseShutdownCh(t)
  \/ DeregisterAllLock(t)
  \/ DeregisterAllDone(t)
  \/ CloseConn(t)

\* steps of a streaming handler's Cleanup, on any thread
CleanupStep(t) ==
  \/ ClRead(t)
  \/ ClSetInit(t)
  \/ ClInitSend(t)
  \/ ClClose(t)
  \/ DeregisterAllNext(t)

\* steps of Monitor and Stream
SubscribeStep(t) ==
  \/ CallSubscribe(t)
  \/ SubWaitInit(t)
  \/ SubWaitShutdown(t)
  \/ SubReturn(t)

\* the listener with one-shot handlers
ListenerStep(maxFrames) ==
  \/ \E s \in Seqs, e \in AgentErrors : ListenDecode(s, e, maxFrames)
  \/ ListenDecodeFail
  \/ RespondSeq
  \/ CallbackHandle

\* the listener in a streaming handler's Handle
StreamHandleStep ==
  \/ StreamHandleRead
  \/ StreamHandleSetInit
  \/ StreamHandleInitSend
  \/ StreamHandleDeliver

\* construction: NewRPCClient's handshake against the listener
NextHandshake ==
  \/ Handshake(1)
  \/ GenericRPCStep(1)
  \/ HandshakeReturn(1)
  \/ \E t \in {1, Lis} : CloseStep(t)
  \/ ListenerStep(MaxFrames)

SpecHandshake == Init /\ [][NextHandshake]_vars

\* concurrent one-shot calls and Close
NextCalls ==
  \/ \E t \in Callers : \E w \in BOOLEAN : CallRPC(t, w)
  \/ \E t \in Callers : CallClose(t)
  \/ \E t \in Callers : GenericRPCStep(t)
  \/ \E t \in Callers : RpcReturn(t)
  \/ \E t \in Threads : CloseStep(t)
  \/ ListenerStep(MaxFrames)

SpecCalls == InitReady /\ [][NextCalls]_vars

\* every operation of the client: the callers in req issue requests, the
\* callers in cl call Close, the listener decodes at most maxFrames envelopes
NextOf(req, cl, maxFrames) ==
  \/ \E t \in req : \E w \in BOOLEAN : CallRPC(t, w)
  \/ \E t \in req : \E h \in Seqs : CallStop(t, h)
  \/ \E t \in req : StopRPC(t)
  \/ \E t \in req : SubscribeStep(t)
  \/ \E t \in req : GenericRPCStep(t)
  \/ \E t \in req : RpcReturn(t)
  \/ \E t \in cl : CallClose(t)
  \/ \E t \in Threads : CloseStep(t)
  \/ \E t \in Threads : CleanupStep(t)
  \/ ListenerStep(maxFrames)
  \/ StreamHandleStep
  \/ \E s \in Seqs : Consume(s)

\* one caller, every operation
Next == NextOf({1}, {1}, StreamFrames)

Spec == InitReady /\ [][Next]_vars

\* one caller issues requests while another one calls Close
NextShutdown == NextOf({1}, {2}, MaxFrames)

SpecShutdown == InitReady /\ [][NextShutdown]_vars

\* The Go scheduler runs every goroutine that can run: a step of the program
\* that stays possible is taken.  Nothing is assumed of the application (which
\* calls it makes, when it receives) nor of the agent (which envelopes it
\* sends); a Decode on a closed connection returns its error.
Progress(t) ==
  \/ GenericRPCStep(t)
  \/ CloseStep(t)
  \/ CleanupStep(t)
  \/ t \in Callers /\ (RpcReturn(t) \/ StopRPC(t) \/ SubWaitInit(t)
                          \/ SubWaitShutdown(t) \/ SubReturn(t))
  \/ t = Lis /\ (RespondSeq \/ CallbackHandle \/ StreamHandleStep
                    \/ (conn = "closed" /\ ListenDecodeFail))

FairShutdown == SpecShutdown /\ \A t \in Threads : WF_vars(Progress(t))

\* the same scheduling with a single caller
FairSpec == Spec /\ \A t \in Threads : WF_vars(Progress(t))

\* ------------------------------------------------------------------ claims
\* the state in which the other specifications start is one the construction
\* reaches
ReadyState == InitReady

\* C1: a caller of genericRPC that got a result from its completion channel
\* got the one pushed for the response envelope that carries the seq of its
\* own request, never one pushed for another request's envelope; and every
\* result waiting in a completion channel is for that channel's own seq.
C1_OwnResponse ==
  /\ \A t \in Callers : tfrom[t] # 0 => tfrom[t] = rseq[t]
  /\ \A s \in Seqs : \A i \in 1..Len(errCh[s]) : errCh[s][i].from = s

\* two calls are in flight and the later request is answered first
C1_Witness ==
  \E t, u \in Callers :
    /\ rseq[t] # 0 /\ rseq[t] < rseq[u]
    /\ pc[t] = "wait" /\ rseq[t] \in sent /\ errCh[rseq[t]] = <<>>
    /\ pc[u] = "rpc_ret" /\ tfrom[u] = rseq[u]

\* C8: when the handshake fails, NewRPCClient returns nil and the error (never
\* the client), and by then the client is shut down: closed flag set, shutdown
\* signal and transport closed, dispatch table empty.
C8_HandshakeFailure ==
  /\ client = "ok" => hsResult = ErrNil
  /\ hsResult \notin {"none", ErrNil} => client # "ok"
  /\ client = "failed" =>
       /\ hsResult \notin {"none", ErrNil}
       /\ shutdown /\ shutdownCh = "closed" /\ conn = "closed"
       /\ dispatch = {}

\* the agent refused the handshake, and the constructor itself closed the client
C8_Witness ==
  /\ client = "failed"
  /\ hsResult = "agent error"
  /\ closer = 1

\* C9: when the one-shot handler runs for an envelope with a non-empty error
\* string, it pushes that error (or, after a failed decode of the payload, the
\* decode error) to the completion channel of the envelope's seq and changes
\* nothing else: the closed flag, the shutdown signal, the transport, the
\* dispatch table, every other channel and every caller are as before, and the
\* listener goes on to the next envelope.  The caller that receives from its
\* completion channel returns what was pushed.
C9_ErrorIsScoped ==
  [][/\ (pc[Lis] = "cb_handle" /\ pc'[Lis] # "cb_handle" /\ hdr.error # "") =>
          LET pushed == errCh'[hdr.seq][Len(errCh'[hdr.seq])] IN
          /\ errCh'[hdr.seq] = Append(errCh[hdr.seq], pushed)
          /\ pushed.from = hdr.seq
          /\ pushed.err \in {hdr.error} \cup
                (IF kind[hdr.seq] = "cbResp" THEN {ErrDecode} ELSE {})
          /\ \A s \in Seqs \ {hdr.seq} : errCh'[s] = errCh[s]
          /\ pc'[Lis] = "l_decode"
          /\ \A t \in Callers : pc'[t] = pc[t] /\ terr'[t] = terr[t]
          /\ UNCHANGED <<shutdown, shutdownCh, conn, dispatch, initCh, logCh,
                         logChClosed, panicked>>
     /\ \A t \in Callers :
          (pc[t] = "wait" /\ pc'[t] = "dereg" /\ errCh[rseq[t]] # errCh'[rseq[t]]) =>
            terr'[t] = Head(errCh[rseq[t]]).err
    ]_vars

\* of two calls in flight one has failed with the agent's error and the other
\* has returned its own response's success
C9_Witness ==
  \E t, u \in Callers :
    /\ pc[u] = "rpc_ret" /\ terr[u] = "agent error" /\ tfrom[u] = rseq[u]
    /\ pc[t] = "rpc_ret" /\ terr[t] = ErrNil /\ tfrom[t] = rseq[t]
    /\ ~shutdown

\* the messages of a channel
Range(q) == {q[i] : i \in 1..Len(q)}

\* C2: once a Stop(handle) has returned (after the stop response, a send
\* failure or shutdown), no step puts a message into the delivery channel of
\* that handle: the channel only loses messages (to its consumer), whatever
\* envelopes the agent sends for that seq.
C2_NoDeliveryAfterStop ==
  [][\A h \in stopped :
       /\ Range(logCh'[h]) \subseteq Range(logCh[h])
       /\ Len(logCh'[h]) <= Len(logCh[h])]_vars

\* Stop has returned and the listener has decoded a further envelope that
\* carries the stopped subscription's seq
C2_Witness ==
  \E h \in stopped :
    /\ IsStreaming(kind[h])
    /\ pc[Lis] = "l_respond" /\ hdr.seq = h

\* C3: a caller that was blocked in genericRPC's select, its response not
\* arrived, when Close set the closed flag eventually returns from genericRPC
\* (with the client-closed failure).
C3_BlockedCallersReturn ==
  \A t \in Callers : (t \in blocked) ~> (pc[t] = "rpc_ret")

\* C4: once the Close that shut the client down has returned (the transport is
\* closed), the delivery channel of every streaming handler that was in the
\* dispatch table when shutdown removed the handlers is closed.
C4_ChannelsClosedAtShutdown ==
  conn = "closed" =>
    \A s \in atShutdown : IsStreaming(kind[s]) => logChClosed[s]

\* Close has returned and had a streaming handler to clean up
C4_Witness ==
  /\ conn = "closed"
  /\ \E s \in atShutdown : IsStreaming(kind[s]) /\ logChClosed[s]

\* C5: the non-blocking send of a streaming handler is always possible; on a
\* full channel it leaves every channel as it is, on a channel with room it
\* appends the message; either way the listener goes on to decode the next
\* envelope.
C5_FullChannelDrops ==
  [][/\ (pc[Lis] = "h_deliver" /\ Running) => ENABLED StreamHandleDeliver
     /\ (pc[Lis] = "h_deliver" /\ pc'[Lis] # "h_deliver") =>
          /\ pc'[Lis] = "l_decode"
          /\ IF Len(logCh[lh]) >= ChanCap
               THEN logCh' = logCh
               ELSE logCh' = [logCh EXCEPT ![lh] = Append(@, nframes)]
    ]_vars

\* a message was dropped on the full channel and, after the consumer took one,
\* a later message of the same subscription is in the channel
C5_Witness ==
  \E s \in Seqs : \E d \in dropped[s] : \E m \in Range(logCh[s]) : m > d

\* C6 as claimed: an operation that was in flight when the closed flag was
\* set, or that started afterwards, returns the client-closed sentinel.
C6_AllFailClientClosed ==
  \A t \in Callers :
    (pc[t] \in {"rpc_ret", "sub_ret"} /\ shutdown
       /\ (t \in inFlight \/ shutSeq < rseq[t])) => terr[t] = clientClosed

\* C6, amended: an operation whose request seq is drawn after the closed flag
\* was set returns the client-closed sentinel (and Monitor / Stream the zero
\* handle).  An operation in flight at that moment returns the client-closed
\* sentinel, or the result of its own response, or the transport's write
\* error, or (Monitor / Stream) its handle with what came on the init signal.
C6_LateOperationsFailClientClosed ==
  \A t \in Callers :
    (pc[t] \in {"rpc_ret", "sub_ret"} /\ shutdown) =>
       /\ shutSeq < rseq[t] =>
            /\ terr[t] = clientClosed
            /\ op[t] = "subscribe" => hnd[t] = 0
       /\ t \in inFlight =>
            \/ terr[t] \in {clientClosed, ErrWrite}
            \/ tfrom[t] = rseq[t]
            \/ op[t] = "subscribe" /\ hnd[t] = rseq[t]

\* a subscription started after shutdown returns client closed
C6_Witness ==
  \E t \in Callers :
    /\ pc[t] = "sub_ret" /\ shutdown /\ shutSeq < rseq[t]
    /\ terr[t] = clientClosed

\* C7: when listen() has ended, which it does through its deferred Close
\* after a failed decode of an envelope, the client is shut down: closed flag
\* set, shutdown signal closed, transport closed, and every handler that was
\* in the dispatch table when shutdown emptied it is out of the table and, if
\* streaming, cleaned up.
C7_ListenerEndsInShutdown ==
  pc[Lis] = "l_done" =>
    /\ shutdown /\ shutdownCh = "closed" /\ conn = "closed"
    /\ shutdownLock # Lis /\ dispatchLock # Lis
    /\ atShutdown \cap dispatch = {}
    /\ \A s \in atShutdown : IsStreaming(kind[s]) => hclosed[s] /\ logChClosed[s]

\* the listener failed to decode, ran the shutdown itself and cleaned up a
\* streaming handler
C7_Witness ==
  /\ pc[Lis] = "l_done"
  /\ closer = Lis
  /\ \E s \in atShutdown : IsStreaming(kind[s]) /\ hclosed[s]

\* C10: a delivery channel, once closed, stays closed; and when a Stop whose
\* deregisterHandler found the subscription's handler in the dispatch table
\* (the subscription was active) is about to return, the subscription's
\* delivery channel is closed.
C10_StopClosesChannel ==
  [][/\ \A s \in Seqs : logChClosed[s] => logChClosed'[s]
     /\ \A t \in Callers :
          (op[t] = "stop" /\ stopFound[t] /\ pc[t] = "rpc_ret") =>
            logChClosed[hnd[t]]
    ]_vars

\* Stop found the handler, got the agent's answer to its stop request and is
\* about to return, the channel closed
C10_Witness ==
  \E t \in Callers :
    /\ op[t] = "stop" /\ stopFound[t] /\ pc[t] = "rpc_ret"
    /\ tfrom[t] = rseq[t] /\ terr[t] = ErrNil
    /\ logChClosed[hnd[t]]

\* C11: a request is written to the transport only when the handler for its
\* seq is in the dispatch table, or was in it when shutdown emptied the table;
\* and when the listener dispatches an envelope, no call with that seq is
\* still ahead of its handleSeq.
C11_RegisteredBeforeSend ==
  [][/\ \A s \in sent' \ sent :
          s \in dispatch \/ (shutdown /\ s \in atShutdown)
     /\ pc[Lis] = "l_respond" =>
          /\ hdr.seq \in sent
          /\ \A t \in Callers : rseq[t] = hdr.seq => pc[t] # "handleSeq"
    ]_vars

\* the listener is about to dispatch the response to a request whose caller
\* has just finished writing it and has not reached its select yet
C11_Witness ==
  \E t \in Callers :
    /\ pc[t] \in {"wait", "sub_wait"}
    /\ rseq[t] \in dispatch
    /\ pc[Lis] = "l_respond" /\ hdr.seq = rseq[t]

\* the threads executing Cleanup of the streaming handler s
InCleanup(s) == {t \in Threads : pc[t] \in CleanupAt /\ dseq[t] = s}

C13_HandlersOutsideLock ==
  \A t \in Threads : pc[t] \in CleanupAt \cup HandleAt => dispatchLock # t

\* C14: when the listener, in Handle with a handler it looked up earlier,
\* comes to its send and the delivery channel has been closed by a concurrent
\* Stop or Close, its step discards the message: the channel is left as it is
\* and no send on the closed channel takes place (which would panic).
C14_InFlightDiscarded ==
  [][(Running /\ pc[Lis] = "h_deliver" /\ logChClosed[lh]) =>
       (~panicked' /\ logCh' = logCh)]_vars

\* thread t is inside the if !c.shutdown block of Close, the Cleanup calls of
\* deregisterAll included
InClose(t) == pc[t] \in CloseAt \/ (pc[t] \in CleanupAt /\ ret[t] = "da_loop")

\* C15: only one invocation of Close, the one that set the closed flag, ever
\* executes the shutdown block, holding the shutdown lock; it finds the
\* shutdown signal and the transport still open, and both stay closed once
\* closed; after the transport is closed no thread is in the block; an
\* invocation that finds the flag set returns and changes nothing of the
\* client (sequence counter, table, locks, flag, signal, transport, handlers,
\* channels).
C15_CloseIdempotent ==
  [][/\ \A t \in Threads :
          /\ InClose(t) => (t = closer /\ shutdownLock = t /\ shutdown)
          /\ pc[t] = "close_ch" => shutdownCh = "open"
          /\ pc[t] = "close_conn" => conn = "open"
          /\ (pc[t] = "close_lock" /\ shutdown /\ pc'[t] # "close_lock") =>
               /\ pc'[t] \in {"idle", "l_done"}
               /\ UNCHANGED <<gSeq, gDisp, gWrite, gShut, gHand, errCh, panicked>>
     /\ shutdownCh = "closed" => shutdownCh' = "closed"
     /\ conn = "closed" => (conn' = "closed" /\ \A t \in Threads : ~InClose(t))
     /\ closer # 0 => closer' = closer
    ]_vars

\* a caller's Close shut the client down; the listener's deferred Close came
\* second, found the flag set and returned
C15_Witness ==
  /\ closer \in Callers
  /\ conn = "closed"
  /\ pc[Lis] = "l_done"

\* C16: whenever genericRPC is about to return, the dispatch table holds no
\* handler for its seq; and whenever the listener is in a one-shot handler,
\* about to push the result on the completion channel, it gets past the push.
C16_NoHandlerLeftNoBlock ==
  /\ [](\A t \in Callers : pc[t] = "rpc_ret" => rseq[t] \notin dispatch)
  /\ ((pc[Lis] = "cb_handle") ~> (pc[Lis] # "cb_handle"))

\* C17: a failure to decode a payload record inside a handler (a streaming
\* handler's Decode(&rec), a one-shot handler's Decode(resp)) makes the listener
\* leave its loop for the shutdown: after the step that meets the failure the
\* listener is on its way into Close, not back to decoding envelopes.
C17_PayloadDecodeFailureShutsDown ==
  [][(\/ pc[Lis] = "h_read" /\ pc'[Lis] = "dereg"
      \/ /\ pc[Lis] = "cb_handle" /\ pc'[Lis] # "cb_handle"
         /\ errCh'[lh][Len(errCh'[lh])].err = ErrDecode)
       => (pc'[Lis] = "close_lock" \/ ret'[Lis] = "close_lock")]_vars

\* the threads that have read init = false of the streaming handler s and
\* have not yet completed their send on its init signal
InitSenders(s) ==
  {t \in Threads :
     \/ pc[t] \in {"cl_setinit", "cl_initsend"} /\ dseq[t] = s
     \/ t = Lis /\ pc[t] \in {"h_setinit", "h_initsend"} /\ lh = s}

\* C18: for every streaming subscription at most one thread (the listener in
\* the first Handle, or a thread in Cleanup) ever gets past the test of init
\* towards the send on the init signal, and a thread at that send finds room
\* in the 1-buffered channel.
C18_OneInitSignal ==
  \A s \in Seqs :
    /\ Cardinality(InitSenders(s)) <= 1
    /\ \A t \in InitSenders(s) : Len(initCh[s]) < ErrChCap

\* C19: a thread that has called Close eventually is out of Close (or the
\* process has ended in a panic).
C19_CloseReturns ==
  \A t \in Threads :
    (pc[t] = "close_lock" \/ InClose(t)) ~>
       (panicked \/ ~(pc[t] = "close_lock" \/ InClose(t)))

\* C20: when Monitor or Stream is about to return a failure, the dispatch
\* table has no handler for the subscription's seq and the delivery channel
\* has been closed.
C20_FailedSubscribeLeavesNothing ==
  \A t \in Callers :
    (pc[t] = "sub_ret" /\ terr[t] # ErrNil) =>
      (rseq[t] \notin dispatch /\ logChClosed[rseq[t]])

====
